---------------------------- MODULE Spec2Model ----------------------------
(* Exact arithmetic over Z[sqrt n1, ..., sqrt nk] (quadratic_rational.py)  *)
(* and the boundary walk that builds the reflected triangle tiling        *)
(* (tiling.py), as state machines.                                         *)
(*                                                                         *)
(* A numpy array is modelled by its C-order flattening: a sequence of      *)
(* length 2^ndim (every axis has size 2, a 0-d array has length 1).  The   *)
(* leading axis is the slowest one, so prepending an axis concatenates two *)
(* copies and the last axis alternates between neighbouring positions.     *)
EXTENDS Integers, Sequences, FiniteSets

---------------------------------------------------------------------------
(* Integer helpers (numpy ufuncs applied to one element) *)

Abs(a) == IF a < 0 THEN -a ELSE a

RECURSIVE GcdNat(_, _)
GcdNat(a, b) == IF b = 0 THEN a ELSE GcdNat(b, a % b)

\* np.gcd / math.gcd : non-negative, gcd(0, 0) = 0
Gcd(a, b) == GcdNat(Abs(a), Abs(b))

SetMin(S) == CHOOSE m \in S : \A o \in S : m <= o

Range(s) == {s[i] : i \in 1..Len(s)}

\* a numpy array is a value, not a rule: the elements are computed once
ArrayOf(f, n) == SubSeq(f, 1, n)

\* Python binds a name to a value that is computed once, before it is used:
\* below, CHOOSE r \in {e : x \in {a}} : TRUE is e with x bound to the value
\* of a

RECURSIVE SumSeq(_)
SumSeq(s) == IF s = <<>> THEN 0 ELSE Head(s) + SumSeq(Tail(s))

\* number of axes of an array given by its flattening
RECURSIVE Ndim(_)
Ndim(flat) == IF Len(flat) <= 1 THEN 0 ELSE 1 + Ndim(SubSeq(flat, 1, Len(flat) \div 2))

---------------------------------------------------------------------------
(* QuadraticIntegerMeta *)

\* the loop of _get_products_from_numbers over sorted(numbers); a repeated
\* number is found in products on its second visit and skipped, so the loop
\* is run over the distinct numbers in ascending order
RECURSIVE ProductsLoop(_, _)
ProductsLoop(numbers, products) ==
    IF numbers = {} THEN products
    ELSE LET number == SetMin(numbers)
             rest == numbers \ {number}
         IN IF number \in Range(products)
            THEN ProductsLoop(rest, products)
            ELSE ProductsLoop(rest,
                     products \o ArrayOf([i \in 1..Len(products) |->
                         (products[i] * number)
                             \div (Gcd(products[i], number) * Gcd(products[i], number))],
                         Len(products)))

get_products_from_numbers(numbers) == ProductsLoop(numbers, <<1>>)

\* QuadraticInteger[numbers]: the class is identified by its __products__
QIClass(numbers) ==
    get_products_from_numbers(Range(get_products_from_numbers(numbers)))

\* the generators read back from the products, axis by axis, then reversed
get_numbers_from_products(products) ==
    LET nd == Ndim(products)
        stride(axis) == Len(products) \div (2 ^ (axis + 1))
    IN ArrayOf([k \in 1..nd |-> products[1 + stride(nd - k)]], nd)

---------------------------------------------------------------------------
(* QuadraticInteger: [products, coefficients], two flattenings of one shape *)

QI(products, coefficients) == [products |-> products, coefficients |-> coefficients]

\* an exception in place of a value
AssertionError == [raised |-> "AssertionError"]
ZeroDivisionError == [raised |-> "ZeroDivisionError"]
AttributeError == [raised |-> "AttributeError"]

Raised(v) == "raised" \in DOMAIN v

\* QuadraticInteger.convert on a plain integer
QI_convert(number) == QI(<<1>>, <<number>>)

\* as_int asserts that the class has no generator (its products are 0-d)
QI_as_int(q) == IF Ndim(q.products) = 0 THEN q.coefficients[1] ELSE AssertionError

\* rebase asserts that every product of self with a non-zero coefficient is
\* a product of the new class
QI_rebase(self, new_numbers) ==
    CHOOSE rebased \in
        {IF \A i \in 1..Len(q.products) :
                q.coefficients[i] # 0 => q.products[i] \in Range(new_products)
         THEN QI(new_products,
                 ArrayOf([j \in 1..Len(new_products) |->
                     SumSeq([i \in 1..Len(q.products) |->
                         IF q.products[i] = new_products[j] THEN q.coefficients[i] ELSE 0])],
                     Len(new_products)))
         ELSE AssertionError :
            q \in {self}, new_products \in {QIClass(new_numbers)}} : TRUE

QI_reduce(self) ==
    CHOOSE reduced \in
        {QI_rebase(q, {q.products[i] :
                          i \in {k \in 1..Len(q.products) : q.coefficients[k] # 0}}) :
            q \in {self}} : TRUE

QI_neg(self) ==
    CHOOSE negated \in
        {QI(q.products,
            ArrayOf([i \in 1..Len(q.coefficients) |-> -q.coefficients[i]],
                    Len(q.coefficients))) :
            q \in {self}} : TRUE

QI_add(self, other) ==
    LET new_numbers == Range(self.products) \cup Range(other.products)
    IN CHOOSE sum \in
           {QI_reduce(QI(summand_1.products,
                         ArrayOf([i \in 1..Len(summand_1.products) |->
                             summand_1.coefficients[i] + summand_2.coefficients[i]],
                             Len(summand_1.products)))) :
               summand_1 \in {QI_rebase(self, new_numbers)},
               summand_2 \in {QI_rebase(other, new_numbers)}} : TRUE

QI_sub(a, b) == QI_add(a, QI_neg(b))

\* sqrt(a) * sqrt(b) = gcd(a, b) * sqrt(a * b / gcd(a, b)^2), summed into the
\* position whose product equals a * b / gcd(a, b)^2
QI_mul(self, other) ==
    LET new_numbers == Range(self.products) \cup Range(other.products)
    IN CHOOSE product \in
           {LET products == factor_1.products
                n == Len(products)
                products_gcd(j, i) == Gcd(products[i], factor_2.products[j])
                products_overall(j, i) ==
                    (products[i] * factor_2.products[j])
                        \div (products_gcd(j, i) * products_gcd(j, i))
                result(k, j, i) ==
                    IF products[k] = products_overall(j, i) THEN products_gcd(j, i) ELSE 0
            IN QI_reduce(QI(products,
                   ArrayOf([k \in 1..n |->
                       SumSeq([j \in 1..n |->
                           SumSeq([i \in 1..n |-> result(k, j, i) * factor_1.coefficients[i]])
                               * factor_2.coefficients[j]])], n))) :
               factor_1 \in {QI_rebase(self, new_numbers)},
               factor_2 \in {QI_rebase(other, new_numbers)}} : TRUE

\* numpy broadcasting of two arrays whose axes all have size 2: the shorter
\* flattening is repeated along the leading axes of the longer one
BroadcastAllEq(s, t) ==
    LET n == IF Len(s) > Len(t) THEN Len(s) ELSE Len(t)
    IN \A i \in 1..n : s[((i - 1) % Len(s)) + 1] = t[((i - 1) % Len(t)) + 1]

QI_eq(a, b) ==
    BroadcastAllEq(a.products, b.products) /\ BroadcastAllEq(a.coefficients, b.coefficients)


\* QuadraticInteger ** exponent as create_tiles uses it (exponent >= 1); the
\* class of quadratic_rational.py does not define it: repeated multiplication
RECURSIVE QI_pow(_, _)
QI_pow(a, exponent) ==
    IF exponent <= 1 THEN a ELSE QI_mul(QI_pow(a, exponent - 1), a)

RECURSIVE SqrtInner(_, _, _)
SqrtInner(n, coefficient, number) ==
    IF number % (n * n) = 0
    THEN SqrtInner(n, coefficient * n, number \div (n * n))
    ELSE <<coefficient, number>>

RECURSIVE SqrtLoop(_, _, _)
SqrtLoop(n, coefficient, number) ==
    IF n * n <= number
    THEN LET r == SqrtInner(n, coefficient, number)
         IN SqrtLoop(n + 1, r[1], r[2])
    ELSE <<coefficient, number>>

\* sqrt(number): the largest square k^2 is divided out of number, leaving the
\* remainder r; the result is built in the class QuadraticInteger[r] from the
\* coefficient array [0, k], whose shape (2,) must be the shape of the class's
\* products (QuadraticInteger.__init__ asserts it)
sqrt(number) ==
    LET r == SqrtLoop(2, 1, number)
        products == QIClass({r[2]})
        coefficients == <<0, r[1]>>
    IN IF Len(coefficients) = Len(products)
       THEN QI(products, coefficients)
       ELSE AssertionError

---------------------------------------------------------------------------
(* QuadraticRational: [numerator: QuadraticInteger, denominator: integer] *)

QR(numerator, denominator) == [numerator |-> numerator, denominator |-> denominator]

\* the conjugate used to rationalise: coefficients * np.array([1, -1]) negates
\* index 1 of the last axis, i.e. every second position of the flattening
Conjugate(q) ==
    QI(q.products,
       ArrayOf([i \in 1..Len(q.coefficients) |->
           IF i % 2 = 0 THEN -q.coefficients[i] ELSE q.coefficients[i]], Len(q.coefficients)))

\* while denominator.__products__.ndim > 0: multiply both by the conjugate
RECURSIVE Rationalise(_, _)
Rationalise(num, den) ==
    CHOOSE pair \in
        {IF Ndim(denominator.products) > 0
         THEN CHOOSE next \in
                  {Rationalise(QI_mul(numerator, factor), QI_mul(denominator, factor)) :
                      factor \in {Conjugate(denominator)}} : TRUE
         ELSE <<numerator, denominator>> :
            numerator \in {num}, denominator \in {den}} : TRUE

\* while numerator_gcd.ndim > 0: np.gcd of the two halves along the first axis
RECURSIVE numerator_gcd(_)
numerator_gcd(c) ==
    IF Len(c) <= 1 THEN c[1]
    ELSE LET h == Len(c) \div 2
         IN numerator_gcd(ArrayOf([i \in 1..h |-> Gcd(c[i], c[h + i])], h))

\* numpy's integer floor division: x // 0 is 0 (with a warning)
NpFloorDiv(x, factor) == IF factor = 0 THEN 0 ELSE x \div factor

\* _reduce_fraction; the denominator is a Python int, so `//= 0` raises
reduce_fraction(num, den) ==
    CHOOSE fraction \in
        {IF factor = 0
         THEN ZeroDivisionError
         ELSE QR(QI(numerator.products,
                    ArrayOf([i \in 1..Len(numerator.coefficients) |->
                        NpFloorDiv(numerator.coefficients[i], factor)],
                        Len(numerator.coefficients))),
                 denominator \div factor) :
            numerator \in {num}, denominator \in {den},
            factor \in {Gcd(numerator_gcd(num.coefficients), den)}} : TRUE

\* QuadraticRational.__init__; a plain-integer argument is passed as its
\* conversion, for which the rationalising loop does not run
QuadraticRational(numerator, denominator) ==
    CHOOSE self \in
        {IF QI_as_int(r[2]) < 0
         THEN reduce_fraction(QI_neg(r[1]), -QI_as_int(r[2]))
         ELSE reduce_fraction(r[1], QI_as_int(r[2])) :
            r \in {Rationalise(numerator, denominator)}} : TRUE

\* QuadraticRational.convert of an integer, and of a QuadraticInteger
QR_convert_int(number) == QuadraticRational(QI_convert(number), QI_convert(1))
QR_convert(number) == QuadraticRational(number, QI_convert(1))

QR_neg(self) ==
    CHOOSE negated \in
        {QuadraticRational(QI_neg(a.numerator), QI_convert(a.denominator)) :
            a \in {self}} : TRUE

QR_add(self, other) ==
    CHOOSE sum \in
        {QuadraticRational(
             QI_add(QI_mul(a.numerator, QI_convert(b.denominator)),
                    QI_mul(b.numerator, QI_convert(a.denominator))),
             QI_convert(a.denominator * b.denominator)) :
            a \in {self}, b \in {other}} : TRUE

QR_sub(a, b) == QR_add(a, QR_neg(b))

QR_mul(self, other) ==
    CHOOSE product \in
        {QuadraticRational(QI_mul(a.numerator, b.numerator),
                           QI_convert(a.denominator * b.denominator)) :
            a \in {self}, b \in {other}} : TRUE

\* QuadraticRational.__truediv__ for a QuadraticRational divisor: there is no
\* test of the divisor against zero
QR_truediv(self, divisor) ==
    CHOOSE quotient \in
        {QuadraticRational(QI_mul(a.numerator, QI_convert(other.denominator)),
                           QI_mul(other.numerator, QI_convert(a.denominator))) :
            a \in {self}, other \in {divisor}} : TRUE

\* ... for a QuadraticInteger divisor (wrapped first), and for a Python int
\* (QuadraticInteger.from_int is not defined anywhere)
QR_truediv_qi(a, other) == QR_truediv(a, QuadraticRational(other, QI_convert(1)))
QR_truediv_int(a, other) == AttributeError

RECURSIVE QR_pow(_, _)
QR_pow(a, exponent) ==
    IF exponent = 0 THEN QR_convert_int(1)
    ELSE IF exponent < 0 THEN QR_truediv(QR_convert_int(1), QR_pow(a, -exponent))
    ELSE CHOOSE power \in
             {IF exponent % 2 = 0
              THEN QR_mul(half_power, half_power)
              ELSE QR_mul(QR_mul(half_power, half_power), a) :
                 half_power \in {QR_pow(a, exponent \div 2)}} : TRUE

QR_eq(a, b) == QI_eq(a.numerator, b.numerator) /\ a.denominator = b.denominator

---------------------------------------------------------------------------
(* Point, Line (tiling.py) *)

Point(x, y, z) == [x |-> x, y |-> y, z |-> z]

\* Point.__eq__: x and y only
Point_eq(p, q) == QR_eq(p.x, q.x) /\ QR_eq(p.y, q.y)

\* hash(QuadraticRational): tiling.py hashes the coordinates, the class of
\* quadratic_rational.py defines __eq__ only; equal values hash equal
QR_hash(a) == <<a.numerator.products, a.numerator.coefficients, a.denominator>>

\* Point.__hash__: hash((self.x, self.y))
Point_hash(p) == <<QR_hash(p.x), QR_hash(p.y)>>

Sqrt2 == QR_convert(sqrt(2))

Line_from_points(point_1, point_2) ==
    [x |-> QR_sub(QR_mul(point_1.y, point_2.z), QR_mul(point_1.z, point_2.y)),
     y |-> QR_sub(QR_mul(point_1.z, point_2.x), QR_mul(point_1.x, point_2.z)),
     z |-> QR_mul(QR_sub(QR_mul(point_1.y, point_2.x), QR_mul(point_1.x, point_2.y)), Sqrt2)]

Line_norm(l) ==
    QR_sub(QR_mul(QR_add(QR_pow(l.x, 2), QR_pow(l.y, 2)), Sqrt2), QR_pow(l.z, 2))

Line_product(l, point) ==
    QR_sub(QR_mul(l.z, point.z),
           QR_mul(QR_add(QR_mul(l.x, point.x), QR_mul(l.y, point.y)), Sqrt2))

\* Python evaluates factor before the three coordinates: it is bound as a value
Line_reflection(l, point) ==
    CHOOSE reflected \in
        {Point(QR_add(point.x, QR_mul(QR_mul(l.x, QR_convert_int(2)), factor)),
               QR_add(point.y, QR_mul(QR_mul(l.y, QR_convert_int(2)), factor)),
               QR_add(point.z, QR_mul(QR_mul(l.z, QR_convert_int(2)), factor))) :
            factor \in {QR_truediv(Line_product(l, point), Line_norm(l))}} : TRUE

cosh_distance(point_1, point_2) ==
    QR_sub(QR_mul(point_1.z, point_2.z),
           QR_mul(QR_add(QR_mul(point_1.x, point_2.x), QR_mul(point_1.y, point_2.y)), Sqrt2))

\* the seed of create_tiles.py
point_1 ==
    Point(QR_convert(QI_mul(sqrt(2), QI_convert(0))),
          QuadraticRational(sqrt(2), sqrt(3)),
          QuadraticRational(QI_add(sqrt(2), QI_convert(1)), sqrt(3)))
point_2 ==
    Point(QuadraticRational(QI_neg(sqrt(2)), QI_convert(2)),
          QR_neg(QuadraticRational(QI_convert(1), sqrt(6))),
          QuadraticRational(QI_add(sqrt(2), QI_convert(1)), sqrt(3)))
point_3 ==
    Point(QuadraticRational(sqrt(2), QI_convert(2)),
          QR_neg(QuadraticRational(QI_convert(1), sqrt(6))),
          QuadraticRational(QI_add(sqrt(2), QI_convert(1)), sqrt(3)))

---------------------------------------------------------------------------
(* Tiling (tiling.py)                                                       *)
(*                                                                          *)
(* A registered Vertex object is named by its position in the vertex table  *)
(* (registration order), an Edge by the set of its two vertices, a Tile by   *)
(* the triple (vertex_1, vertex_2, vertex_3); Edge and Tile equality is      *)
(* equality of vertex sets.  The dictionaries keyed by Edge and by Tile are  *)
(* sequences in insertion order with parallel value sequences.               *)

VARIABLES
    depth,          \* the argument of the outermost create_tiles call
    level,          \* the argument of the create_tiles frame now running
    pc,             \* where that frame is: call, first, walk, return, done, raised
    tiling,         \* the Tiling object: its tables, colour maps and _boundary
    new_boundary,   \* create_tiles' local new_boundary
    index,          \* create_tiles' local index
    counter,        \* create_tiles' local counter
    num_tiles,      \* create_tiles' local num_tiles, the total shown in the progress line
    new_vertex,     \* the vertex returned by the latest _build_new_tile (0: none yet)
    raised,         \* the exception that ended the run, "none" otherwise
    files,          \* the directory images/: whether it exists, the snapshots in it
    op,             \* arithmetic: the operation applied (SpecArith)
    args,           \* arithmetic: its operands
    result          \* arithmetic: its outcome, a value or a raised exception

vars == <<depth, level, pc, tiling, new_boundary, index, counter, num_tiles, new_vertex,
          raised, files, op, args, result>>

tilingVars == <<depth, level, pc, tiling, new_boundary, index, counter, num_tiles,
                new_vertex, raised, files>>
arithVars == <<op, args, result>>

\* largest depth passed to create_tiles
MaxDepth == 2

\* Python's ^ on the colour values
RECURSIVE Xor(_, _)
Xor(a, b) ==
    IF a = 0 /\ b = 0 THEN 0
    ELSE (((a % 2) + (b % 2)) % 2) + 2 * Xor(a \div 2, b \div 2)

Edge(vertex_1, vertex_2) == {vertex_1, vertex_2}
Tile(vertex_1, vertex_2, vertex_3) == <<vertex_1, vertex_2, vertex_3>>
Tile_vertices(tile) == {tile[1], tile[2], tile[3]}

HasEdge(t, edge) == \E i \in 1..Len(t.edges) : t.edges[i] = edge
EdgeIndex(t, edge) == CHOOSE i \in 1..Len(t.edges) : t.edges[i] = edge

HasTile(t, tile) == \E i \in 1..Len(t.tiles) : Tile_vertices(t.tiles[i]) = Tile_vertices(tile)
TileIndex(t, tile) ==
    CHOOSE i \in 1..Len(t.tiles) : Tile_vertices(t.tiles[i]) = Tile_vertices(tile)

\* _populate_data with the vertex colours index instead of index + 1
populate_data_from_zero(vertex_1, vertex_2, vertex_3) ==
    [vertices |-> <<vertex_1, vertex_2, vertex_3>>,
     edges |-> <<Edge(2, 3), Edge(1, 3), Edge(1, 2)>>,
     tiles |-> <<Tile(1, 2, 3)>>,
     edges_to_tiles |-> <<{1}, {1}, {1}>>,
     tiles_to_colours |-> <<0>>,
     vertices_to_colours |-> <<0, 1, 2>>,
     boundary |-> <<1, 2, 3>>]

\* Tiling.__init__ and _populate_data for three distinct points: the vertices
\* are registered in the order given, the edge opposite each vertex with it
populate_data(vertex_1, vertex_2, vertex_3) ==
    [vertices |-> <<vertex_1, vertex_2, vertex_3>>,
     edges |-> <<Edge(2, 3), Edge(1, 3), Edge(1, 2)>>,
     tiles |-> <<Tile(1, 2, 3)>>,
     edges_to_tiles |-> <<{1}, {1}, {1}>>,
     tiles_to_colours |-> <<0>>,
     vertices_to_colours |-> <<1, 2, 3>>,
     boundary |-> <<1, 2, 3>>]

\* _add_vertex without the lookup: every candidate is registered as new
add_vertex_always_new(t, vertex) ==
    [t |-> [t EXCEPT !.vertices = Append(@, vertex)],
     ret |-> Len(t.vertices) + 1]

\* key lookup in the dictionary self._vertices: same hash and equal
SameKey(p, q) == Point_hash(p) = Point_hash(q) /\ Point_eq(p, q)

\* _add_vertex: the table is searched by key; returns the table and the
\* registered vertex
add_vertex(t, vertex) ==
    IF \E i \in 1..Len(t.vertices) : SameKey(t.vertices[i], vertex)
    THEN [t |-> t,
          ret |-> CHOOSE i \in 1..Len(t.vertices) : SameKey(t.vertices[i], vertex)]
    ELSE [t |-> [t EXCEPT !.vertices = Append(@, vertex)],
          ret |-> Len(t.vertices) + 1]

add_edge(t, edge) ==
    IF HasEdge(t, edge) THEN t
    ELSE [t EXCEPT !.edges = Append(@, edge), !.edges_to_tiles = Append(@, {})]

\* _add_tile that adds the tile to every edge that touches one of its vertices
add_tile_loose(t, tile) ==
    LET body(t1, k) ==
            LET reg == t1.tiles[k]
            IN [t |-> [t1 EXCEPT !.edges_to_tiles =
                          ArrayOf([e \in 1..Len(t1.edges) |->
                              IF t1.edges[e] \cap Tile_vertices(reg) # {}
                              THEN t1.edges_to_tiles[e] \cup {k}
                              ELSE t1.edges_to_tiles[e]], Len(t1.edges))],
                ret |-> k]
    IN IF HasTile(t, tile)
       THEN body(t, TileIndex(t, tile))
       ELSE body([t EXCEPT !.tiles = Append(@, tile)], Len(t.tiles) + 1)

\* _add_tile that adds the tile to edge_2 and edge_3 only
add_tile_skips_edge(t, tile) ==
    LET body(t1, k) ==
            LET reg == t1.tiles[k]
            IN [t |-> CHOOSE touched \in
                          {[t1 EXCEPT !.edges_to_tiles =
                               ArrayOf([e \in 1..Len(t1.edges) |->
                                   IF e \in edges
                                   THEN t1.edges_to_tiles[e] \cup {k}
                                   ELSE t1.edges_to_tiles[e]], Len(t1.edges))] :
                              edges \in {{EdgeIndex(t1, Edge(reg[3], reg[1])),
                                         EdgeIndex(t1, Edge(reg[1], reg[2]))}}} : TRUE,
                ret |-> k]
    IN IF HasTile(t, tile)
       THEN body(t, TileIndex(t, tile))
       ELSE body([t EXCEPT !.tiles = Append(@, tile)], Len(t.tiles) + 1)

\* _add_tile: registers the tile if new, adds the registered tile to the
\* incident-tile sets of its three edges, returns the table and the tile
add_tile(t, tile) ==
    LET body(t1, k) ==
            LET reg == t1.tiles[k]
            IN [t |-> CHOOSE touched \in
                          {[t1 EXCEPT !.edges_to_tiles =
                               ArrayOf([e \in 1..Len(t1.edges) |->
                                   IF e \in edges
                                   THEN t1.edges_to_tiles[e] \cup {k}
                                   ELSE t1.edges_to_tiles[e]], Len(t1.edges))] :
                              edges \in {{EdgeIndex(t1, Edge(reg[2], reg[3])),
                                         EdgeIndex(t1, Edge(reg[3], reg[1])),
                                         EdgeIndex(t1, Edge(reg[1], reg[2]))}}} : TRUE,
                ret |-> k]
    IN IF HasTile(t, tile)
       THEN body(t, TileIndex(t, tile))
       ELSE body([t EXCEPT !.tiles = Append(@, tile)], Len(t.tiles) + 1)

\* a dictionary write d[key] = value on a sequence indexed by registration order
SetItem(d, key, value) ==
    IF key = Len(d) + 1 THEN Append(d, value) ELSE [d EXCEPT ![key] = value]

\* what _build_new_tile raises before it changes anything: KeyError when the
\* edge is not registered, IndexError when it has no incident tile
build_raises(t, vertex_1, vertex_2) ==
    IF ~HasEdge(t, Edge(vertex_1, vertex_2)) THEN "KeyError"
    ELSE IF t.edges_to_tiles[EdgeIndex(t, Edge(vertex_1, vertex_2))] = {} THEN "IndexError"
    ELSE IF \A it \in t.edges_to_tiles[EdgeIndex(t, Edge(vertex_1, vertex_2))] :
                Tile_vertices(t.tiles[it]) \ {vertex_1, vertex_2} = {} THEN "IndexError"
    ELSE "none"

\* tuple(self._edges_to_tiles[edge])[0]: any element of the set when it has two
InnerTiles(t, vertex_1, vertex_2) ==
    IF HasEdge(t, Edge(vertex_1, vertex_2))
    THEN t.edges_to_tiles[EdgeIndex(t, Edge(vertex_1, vertex_2))]
    ELSE {}

\* tuple(inner_tile.vertices - {vertex_1, vertex_2})[0]
InnerVertex(t, vertex_1, vertex_2, inner_tile) ==
    CHOOSE v \in Tile_vertices(t.tiles[inner_tile]) \ {vertex_1, vertex_2} : TRUE

\* the colour writes with the tile given the inner vertex's colour as it is
assign_colours_no_xor(t, reflected_vertex, new_tile, inner_vertex, inner_tile) ==
    [t EXCEPT !.vertices_to_colours =
                  SetItem(@, reflected_vertex, t.vertices_to_colours[inner_vertex]),
              !.tiles_to_colours =
                  SetItem(@, new_tile, t.vertices_to_colours[inner_vertex])]

\* the colour writes with the two right-hand sides exchanged
assign_colours_swapped(t, reflected_vertex, new_tile, inner_vertex, inner_tile) ==
    [t EXCEPT !.vertices_to_colours =
                  SetItem(@, reflected_vertex,
                          Xor(t.vertices_to_colours[inner_vertex],
                              t.tiles_to_colours[inner_tile])),
              !.tiles_to_colours =
                  SetItem(@, new_tile, t.vertices_to_colours[inner_vertex])]

\* the two colour writes that end _build_new_tile; the right-hand sides are
\* read from the maps as they are when the writes run
assign_colours(t, reflected_vertex, new_tile, inner_vertex, inner_tile) ==
    CHOOSE coloured \in
        {[t1 EXCEPT !.tiles_to_colours =
             SetItem(@, new_tile,
                     Xor(t1.vertices_to_colours[inner_vertex],
                         t1.tiles_to_colours[inner_tile]))] :
            t1 \in {[t EXCEPT !.vertices_to_colours =
                        SetItem(@, reflected_vertex, t.vertices_to_colours[inner_vertex])]}} :
        TRUE

\* _build_new_tile with the inner tile chosen; returns the table and the vertex
build_new_tile(t, vertex_1, vertex_2, inner_tile) ==
    LET inner_vertex == InnerVertex(t, vertex_1, vertex_2, inner_tile)
    IN CHOOSE built \in
           {CHOOSE coloured \in
                {[t |-> assign_colours(at.t, av.ret, at.ret, inner_vertex, inner_tile),
                  ret |-> av.ret] :
                    at \in {add_tile(add_edge(add_edge(av.t, Edge(vertex_1, av.ret)),
                                              Edge(vertex_2, av.ret)),
                                     Tile(vertex_1, av.ret, vertex_2))}} : TRUE :
               av \in {add_vertex(t,
                          Line_reflection(
                              Line_from_points(t.vertices[vertex_1], t.vertices[vertex_2]),
                              t.vertices[inner_vertex]))}} : TRUE

---------------------------------------------------------------------------
(* _save_data (tiling.py) *)

\* QuadraticRational.to_json: tiling.py calls it on every coordinate, the
\* class of quadratic_rational.py does not define it; the value's fields
QR_to_json(a) ==
    [products |-> a.numerator.products,
     coefficients |-> a.numerator.coefficients,
     denominator |-> a.denominator]

\* Vertex.to_json
Vertex_to_json(vertex) ==
    [x |-> QR_to_json(vertex.x), y |-> QR_to_json(vertex.y), z |-> QR_to_json(vertex.z)]

\* Tile.to_json
Tile_to_json(t, tile) ==
    <<Vertex_to_json(t.vertices[tile[1]]),
      Vertex_to_json(t.vertices[tile[2]]),
      Vertex_to_json(t.vertices[tile[3]])>>

\* _save_data: open(..., 'w') raises when the directory is missing, else the
\* file of this depth is replaced by the list of (tile, colour) pairs in the
\* order of _tiles_to_colours
save_data(fs, t, d) ==
    IF ~fs.exists
    THEN [raised |-> "FileNotFoundError"]
    ELSE [exists |-> TRUE,
          written |-> {f \in fs.written : f[1] # d}
                        \cup {<<d, ArrayOf([i \in 1..Len(t.tiles_to_colours) |->
                                       <<Tile_to_json(t, t.tiles[i]), t.tiles_to_colours[i]>>],
                                   Len(t.tiles_to_colours))>>}]

---------------------------------------------------------------------------
(* create_tiles(depth), one step per _build_new_tile call *)

Init ==
    /\ depth \in 0..MaxDepth
    /\ level = depth
    /\ pc = "call"
    /\ tiling = populate_data(point_1, point_2, point_3)
    /\ new_boundary = <<>>
    /\ index = 0
    /\ counter = 0
    /\ num_tiles = 0
    /\ new_vertex = 0
    /\ raised = "none"
    /\ files \in {[exists |-> e, written |-> {}] : e \in BOOLEAN}
    /\ op = "none"
    /\ args = <<>>
    /\ result = <<>>

\* entry of a frame that does not build the inner layers first
Call_no_recursion ==
    /\ pc = "call"
    /\ IF level = 0
       THEN IF Raised(save_data(files, tiling, level))
            THEN /\ pc' = "raised"
                 /\ raised' = save_data(files, tiling, level).raised
                 /\ files' = files
            ELSE /\ pc' = "return"
                 /\ raised' = raised
                 /\ files' = save_data(files, tiling, level)
       ELSE pc' = "first" /\ raised' = raised /\ files' = files
    /\ UNCHANGED <<depth, level, tiling, new_boundary, index, counter, num_tiles, new_vertex>>
    /\ UNCHANGED arithVars

\* entry of a create_tiles frame: depth 0 saves and returns (the exception of
\* a failed save ends the run), any other depth first calls
\* create_tiles(depth - 1)
Call ==
    /\ pc = "call"
    /\ IF level = 0
       THEN /\ level' = level
            /\ IF Raised(save_data(files, tiling, level))
               THEN /\ pc' = "raised"
                    /\ raised' = save_data(files, tiling, level).raised
                    /\ files' = files
               ELSE /\ pc' = "return"
                    /\ raised' = raised
                    /\ files' = save_data(files, tiling, level)
       ELSE /\ pc' = "call" /\ level' = level - 1
            /\ raised' = raised /\ files' = files
    /\ UNCHANGED <<depth, tiling, new_boundary, index, counter, num_tiles, new_vertex>>
    /\ UNCHANGED arithVars

\* a frame has returned: the outermost one ends the run, any other resumes
\* its caller after the recursive call
Return ==
    /\ pc = "return"
    /\ IF level = depth
       THEN pc' = "done" /\ level' = level
       ELSE pc' = "first" /\ level' = level + 1
    /\ UNCHANGED <<depth, tiling, new_boundary, index, counter, num_tiles, new_vertex, raised,
                   files>>
    /\ UNCHANGED arithVars

\* (3 * sqrt(3) * ((2 + sqrt(3)) ** depth - (2 - sqrt(3)) ** depth)).as_int()
progress_total(d) ==
    QI_as_int(QI_mul(QI_mul(QI_convert(3), sqrt(3)),
                     QI_sub(QI_pow(QI_add(QI_convert(2), sqrt(3)), d),
                            QI_pow(QI_add(QI_neg(sqrt(3)), QI_convert(2)), d))))

\* new_boundary = [self._build_new_tile(self._boundary[0], self._boundary[-1])],
\* then the locals index, counter and num_tiles
First ==
    /\ pc = "first"
    /\ LET vertex_1 == tiling.boundary[1]
           vertex_2 == tiling.boundary[Len(tiling.boundary)]
           err == build_raises(tiling, vertex_1, vertex_2)
       IN IF err # "none"
          THEN /\ pc' = "raised" /\ raised' = err
               /\ UNCHANGED <<tiling, new_boundary, index, counter, num_tiles, new_vertex>>
          ELSE \E inner_tile \in InnerTiles(tiling, vertex_1, vertex_2) :
                  \E b \in {build_new_tile(tiling, vertex_1, vertex_2, inner_tile)} :
                     /\ tiling' = b.t
                     /\ new_vertex' = b.ret
                     /\ new_boundary' = <<b.ret>>
                     /\ index' = 0
                     /\ counter' = 0
                     /\ num_tiles' = progress_total(level)
                     /\ pc' = "walk"
                     /\ raised' = raised
    /\ UNCHANGED <<depth, level, files>>
    /\ UNCHANGED arithVars

\* the test with the first two outcomes exchanged: stop on the old rim
walk_branch_stop_on_rim(vertex, boundary, new_rim) ==
    IF vertex \in Range(boundary) THEN "break"
    ELSE IF vertex \in Range(new_rim) THEN "advance"
    ELSE "append"

\* the three-way test on the vertex a walk step got back
walk_branch(vertex, boundary, new_rim) ==
    IF vertex \in Range(boundary) THEN "advance"
    ELSE IF vertex \in Range(new_rim) THEN "break"
    ELSE "append"

\* one iteration of the while loop; the break also runs the two statements
\* after the loop (self._boundary = new_boundary, then _save_data, whose
\* exception ends the run with the boundary already replaced)
Walk ==
    /\ pc = "walk"
    /\ IF index + 1 > Len(tiling.boundary)
       THEN /\ pc' = "raised" /\ raised' = "IndexError"
            /\ UNCHANGED <<tiling, new_boundary, index, counter, num_tiles, new_vertex, files>>
       ELSE LET vertex_1 == new_boundary[Len(new_boundary)]
                vertex_2 == tiling.boundary[index + 1]
                err == build_raises(tiling, vertex_1, vertex_2)
            IN IF err # "none"
               THEN /\ pc' = "raised" /\ raised' = err
                    /\ UNCHANGED <<tiling, new_boundary, index, counter, num_tiles, new_vertex,
                                   files>>
               ELSE \E inner_tile \in InnerTiles(tiling, vertex_1, vertex_2) :
                       \E b \in {build_new_tile(tiling, vertex_1, vertex_2, inner_tile)} :
                          /\ new_vertex' = b.ret
                          /\ counter' = counter + 1
                          /\ IF walk_branch(b.ret, tiling.boundary, new_boundary) = "advance"
                             THEN /\ index' = index + 1
                                  /\ new_boundary' = new_boundary
                                  /\ tiling' = b.t
                                  /\ pc' = "walk"
                                  /\ raised' = raised /\ files' = files
                             ELSE IF walk_branch(b.ret, tiling.boundary, new_boundary) = "break"
                             THEN /\ index' = index
                                  /\ new_boundary' = new_boundary
                                  /\ tiling' = [b.t EXCEPT !.boundary = new_boundary]
                                  /\ \E saved \in {save_data(files,
                                                      [b.t EXCEPT !.boundary = new_boundary],
                                                      level)} :
                                        IF Raised(saved)
                                        THEN /\ pc' = "raised"
                                             /\ raised' = saved.raised
                                             /\ files' = files
                                        ELSE /\ pc' = "return"
                                             /\ raised' = raised
                                             /\ files' = saved
                             ELSE /\ index' = index
                                  /\ new_boundary' = Append(new_boundary, b.ret)
                                  /\ tiling' = b.t
                                  /\ pc' = "walk"
                                  /\ raised' = raised /\ files' = files
    /\ UNCHANGED <<depth, level, num_tiles>>
    /\ UNCHANGED arithVars

Next == Call \/ Return \/ First \/ Walk

Spec == Init /\ [][Next]_vars

---------------------------------------------------------------------------
(* The arithmetic on its own: sqrt(n) and its square, and a / b.             *)
(* The initial state holds the operation and its operands, the action        *)
(* applies it.                                                               *)

\* largest argument of sqrt
MaxSqrtArg == 18
\* largest absolute value of a coefficient of an operand's numerator
MaxCoef == 2
\* largest denominator an operand is constructed with
MaxDen == 2

\* the values (p + q*sqrt(2)) / d, as the constructor returns them
Operands ==
    {QuadraticRational(QI_add(QI_convert(p), QI_mul(QI_convert(q), sqrt(2))), QI_convert(d)) :
        p \in -MaxCoef..MaxCoef, q \in -MaxCoef..MaxCoef, d \in 1..MaxDen}

\* largest absolute value of a coefficient of a divisor
MaxDivCoef == 1

\* a divisor is a QuadraticRational (here p + q*sqrt(2), zero among them), a
\* QuadraticInteger or a Python int
Divisors ==
    {<<"QuadraticRational",
       QR_convert(QI_add(QI_convert(p), QI_mul(QI_convert(q), sqrt(2))))>> :
        p \in -MaxDivCoef..MaxDivCoef, q \in -MaxDivCoef..MaxDivCoef}
        \cup {<<"QuadraticInteger", QI_convert(0)>>,
              <<"QuadraticInteger", QI_sub(sqrt(2), sqrt(2))>>,
              <<"int", 0>>}

IsZero(divisor) ==
    CASE divisor[1] = "QuadraticRational" -> QR_eq(divisor[2], QR_convert_int(0))
      [] divisor[1] = "QuadraticInteger" -> QI_eq(divisor[2], QI_convert(0))
      [] OTHER -> divisor[2] = 0

\* QuadraticRational.__init__ on objects.  A QuadraticInteger object owns its
\* coefficient array and `coefficients //= factor` writes into that array, so
\* every name bound to the object sees the write.  The heap is the sequence
\* of the QuadraticInteger objects alive, an object is named by its position;
\* a denominator is <<"int", k>> or <<"QuadraticInteger", q>>.

\* the rationalising loop and as_int: `numerator * factor` is a new object, so
\* the name numerator is rebound only when the loop runs
QR_init_rationalise(heap, numerator, denominator) ==
    IF denominator[1] = "QuadraticInteger"
    THEN IF Ndim(denominator[2].products) > 0
         THEN CHOOSE bound \in
                  {[heap |-> Append(heap, r[1]),
                    numerator |-> Len(heap) + 1,
                    denominator |-> QI_as_int(r[2])] :
                      r \in {Rationalise(heap[numerator], denominator[2])}} : TRUE
         ELSE [heap |-> heap, numerator |-> numerator,
               denominator |-> QI_as_int(denominator[2])]
    ELSE [heap |-> heap, numerator |-> numerator, denominator |-> denominator[2]]

\* if denominator < 0: `-numerator` is a new object
QR_init_sign(b) ==
    IF b.denominator < 0
    THEN [heap |-> Append(b.heap, QI_neg(b.heap[b.numerator])),
          numerator |-> Len(b.heap) + 1,
          denominator |-> -b.denominator]
    ELSE b

\* QuadraticInteger.convert returns a QuadraticInteger as it is, so
\* self.numerator is the object bound so far; _reduce_fraction then divides
\* its coefficient array in place, and after that the denominator (a Python
\* int, whose `//= 0` raises)
reduce_fraction_in_place(b) ==
    LET divided(factor) ==
            [b.heap EXCEPT ![b.numerator].coefficients =
                ArrayOf([i \in 1..Len(@) |-> NpFloorDiv(@[i], factor)], Len(@))]
    IN CHOOSE outcome \in
           {IF factor = 0
            THEN [heap |-> divided(factor), raised |-> "ZeroDivisionError"]
            ELSE [heap |-> divided(factor),
                  self |-> [numerator |-> b.numerator,
                            denominator |-> b.denominator \div factor]] :
               factor \in {Gcd(numerator_gcd(b.heap[b.numerator].coefficients),
                               b.denominator)}} : TRUE

\* QuadraticRational(numerator, denominator) for a QuadraticInteger numerator:
\* the heap after the call and the new object's fields
QR_init(heap, numerator, denominator) ==
    reduce_fraction_in_place(QR_init_sign(QR_init_rationalise(heap, numerator, denominator)))

\* the numerators p + q*sqrt(2), as the arithmetic returns them
Numerators ==
    {QI_add(QI_convert(p), QI_mul(QI_convert(q), sqrt(2))) :
        p \in -MaxCoef..MaxCoef, q \in -MaxCoef..MaxCoef}

\* the denominators: a Python int, a QuadraticInteger that is an integer, and
\* multiples of sqrt(2)
Denominators ==
    {<<"int", d>> : d \in -MaxDen..MaxDen}
        \cup {<<"QuadraticInteger", QI_convert(d)>> : d \in -MaxDen..MaxDen}
        \cup {<<"QuadraticInteger", QI_mul(QI_convert(d), sqrt(2))>> : d \in 1..MaxDen}

Pending == [pending |-> TRUE]

InitArith ==
    /\ depth = 0
    /\ level = 0
    /\ pc = "arith"
    /\ tiling = populate_data(point_1, point_2, point_3)
    /\ new_boundary = <<>>
    /\ index = 0
    /\ counter = 0
    /\ num_tiles = 0
    /\ new_vertex = 0
    /\ raised = "none"
    /\ files = [exists |-> TRUE, written |-> {}]
    /\ \/ op = "sqrt" /\ args \in {<<n>> : n \in 1..MaxSqrtArg}
       \/ op = "truediv" /\ args \in {<<a, b>> : a \in Operands, b \in Divisors}
       \/ op = "construct" /\ args \in {<<n, d>> : n \in Numerators, d \in Denominators}
    /\ result = Pending

\* s = sqrt(n), then s * s
SqrtSquared ==
    /\ pc = "arith" /\ op = "sqrt" /\ result = Pending
    /\ \E s \in {sqrt(args[1])} :
          result' = IF Raised(s) THEN s ELSE [value |-> s, square |-> QI_mul(s, s)]
    /\ UNCHANGED <<op, args>>
    /\ UNCHANGED tilingVars

\* a / b, by the type of b
TrueDiv ==
    /\ pc = "arith" /\ op = "truediv" /\ result = Pending
    /\ result' = CASE args[2][1] = "QuadraticRational" -> QR_truediv(args[1], args[2][2])
                   [] args[2][1] = "QuadraticInteger" -> QR_truediv_qi(args[1], args[2][2])
                   [] OTHER -> QR_truediv_int(args[1], args[2][2])
    /\ UNCHANGED <<op, args>>
    /\ UNCHANGED tilingVars

\* n is the only object alive; QuadraticRational(n, d), which is also what
\* n / d calls (QuadraticInteger.__truediv__)
Construct ==
    /\ pc = "arith" /\ op = "construct" /\ result = Pending
    /\ result' = QR_init(<<args[1]>>, 1, args[2])
    /\ UNCHANGED <<op, args>>
    /\ UNCHANGED tilingVars

NextArith == SqrtSquared \/ TrueDiv \/ Construct

SpecArith == InitArith /\ [][NextArith]_vars

\* The run under weak fairness of its steps: the interpreter keeps executing
\* the one thread.  Next is enabled exactly where pc is call, return, first
\* or walk (each action is total on its pc value), and each of its steps
\* changes pc, level or counter; the condition is stated on that shadow of
\* the step, which is a step of Tick.
progress == <<pc, level, counter>>

Tick ==
    /\ pc \in {"call", "return", "first", "walk"}
    /\ pc' \in {"call", "return", "first", "walk", "done", "raised"}
    /\ level' \in {level - 1, level, level + 1}
    /\ counter' \in {0, counter, counter + 1}

SpecFair == Spec /\ WF_progress(Tick)

---------------------------------------------------------------------------
(* Properties of the tiling *)

TilesOn(e) == tiling.edges_to_tiles[e]
EdgeIds == 1..Len(tiling.edges)
TileIds == 1..Len(tiling.tiles)
VertexIds == 1..Len(tiling.vertices)

\* C1: every edge of the edge table has at most two incident tiles, in every
\* state of the boundary walk.
C1_EdgeHasAtMostTwoTiles ==
    \A e \in EdgeIds : Cardinality(TilesOn(e)) <= 2

\* a walk step of the second layer has just given an edge its second tile
C1_Witness ==
    /\ pc = "walk" /\ level = 2 /\ counter > 0
    /\ \E e \in EdgeIds : Len(tiling.tiles) \in TilesOn(e) /\ Cardinality(TilesOn(e)) = 2

\* C2 as stated: 1 tile after create_tiles(0), 4 after create_tiles(1), 13
\* after create_tiles(2).
C2_TileCountsAsStated ==
    pc = "done" =>
        /\ depth = 0 => Len(tiling.tiles) = 1
        /\ depth = 1 => Len(tiling.tiles) = 4
        /\ depth = 2 => Len(tiling.tiles) = 13

\* C2, amended: the tile table holds 1 tile after create_tiles(0), 19 after
\* create_tiles(1) and 91 after create_tiles(2).
C2_TileCounts ==
    pc = "done" =>
        /\ depth = 0 => Len(tiling.tiles) = 1
        /\ depth = 1 => Len(tiling.tiles) = 19
        /\ depth = 2 => Len(tiling.tiles) = 91

\* create_tiles(2) has returned with both layers built
C2_Witness ==
    pc = "done" /\ depth = 2 /\ level = 2 /\ Len(tiling.tiles) = 91

\* C3: once create_tiles(d) has returned for a d >= 1 (create_tiles(1) first
\* of all), the base tile has colour 0 and across each of its three edges lies
\* exactly one other tile, whose colour is the colour of the base vertex
\* opposite that edge; the base vertices have the colours 1, 2, 3.
C3_NeighbourColours ==
    (pc \in {"return", "done"} /\ level >= 1) =>
        /\ tiling.tiles_to_colours[1] = 0
        /\ \A v \in {1, 2, 3} :
              /\ tiling.vertices_to_colours[v] = v
              /\ HasEdge(tiling, {1, 2, 3} \ {v})
              /\ \E n \in TileIds \ {1} :
                    /\ TilesOn(EdgeIndex(tiling, {1, 2, 3} \ {v})) = {1, n}
                    /\ tiling.tiles_to_colours[n] = tiling.vertices_to_colours[v]

\* create_tiles(1) has returned, and the neighbours across the edges (1, 2)
\* and (2, 3) are tiles made later than the one reflected across (1, 3):
\* closing tiles of the fans around vertex 1 and vertex 2
C3_Witness ==
    /\ pc = "return" /\ level = 1
    /\ \E n \in TileIds : n > 2 /\ TilesOn(EdgeIndex(tiling, {1, 2})) = {1, n}
    /\ \E n \in TileIds : n > 2 /\ TilesOn(EdgeIndex(tiling, {2, 3})) = {1, n}

\* C4: no two entries of the vertex table have equal (x, y); a candidate
\* equal to a registered vertex is answered with that vertex and the table
\* does not grow.
C4_NoDuplicateVertices ==
    /\ \A i \in VertexIds : \A j \in VertexIds :
          i # j => ~Point_eq(tiling.vertices[i], tiling.vertices[j])
    /\ new_vertex \in 0..Len(tiling.vertices)

\* the walk of the first layer has closed: the last candidate was the first
\* vertex of the layer and no vertex was added for it
C4_Witness ==
    /\ pc = "return" /\ level = 1
    /\ new_vertex = new_boundary[1]
    /\ new_vertex < Len(tiling.vertices)
    /\ Len(tiling.vertices) = 3 + Len(new_boundary)

\* C7: every tile colour is in {0, 1, 2, 3}, and for every edge with two
\* incident tiles t1 and t2, in either order, colour(t2) is colour(t1) XOR the
\* colour of the vertex of t1 opposite the edge.
C7_TileColoursXor ==
    /\ \A k \in TileIds : tiling.tiles_to_colours[k] \in 0..3
    /\ \A e \in EdgeIds : \A t1 \in TilesOn(e) : \A t2 \in TilesOn(e) \ {t1} :
          \A u \in Tile_vertices(tiling.tiles[t1]) \ tiling.edges[e] :
              tiling.tiles_to_colours[t2] =
                  Xor(tiling.tiles_to_colours[t1], tiling.vertices_to_colours[u])

\* the second layer is complete and the tile made last shares an edge with a
\* tile of the second layer across which it was not reflected: the last step
\* builds across (new_boundary[-1], boundary[index]), and the closing tile
\* also meets the first tile of the layer along (new_boundary[0], boundary[index])
C7_Witness ==
    /\ pc = "return" /\ level = 2
    /\ \E e \in EdgeIds :
          /\ tiling.edges[e] # {new_boundary[Len(new_boundary)], new_vertex}
          /\ new_vertex \in tiling.edges[e]
          /\ Len(tiling.tiles) \in TilesOn(e)
          /\ Cardinality(TilesOn(e)) = 2
          /\ 1 \notin TilesOn(e)

OneTile(vertex_1, vertex_2) ==
    /\ HasEdge(tiling, Edge(vertex_1, vertex_2))
    /\ Cardinality(TilesOn(EdgeIndex(tiling, Edge(vertex_1, vertex_2)))) = 1

\* C8: every _build_new_tile(v1, v2) call of the walk finds the edge (v1, v2)
\* registered with exactly one incident tile: the call about to be made in
\* each state is so, and no run ends in the KeyError or IndexError of a
\* build or of the walk's index.
C8_BuildFindsOneTile ==
    /\ raised \notin {"KeyError", "IndexError"}
    /\ pc = "first" =>
          OneTile(tiling.boundary[1], tiling.boundary[Len(tiling.boundary)])
    /\ pc = "walk" =>
          /\ new_boundary # <<>>
          /\ index < Len(tiling.boundary)
          /\ OneTile(new_boundary[Len(new_boundary)], tiling.boundary[index + 1])

\* in the walk of the second layer, past the first vertex of the old rim,
\* the next call's edge has one tile
C8_Witness ==
    /\ pc = "walk" /\ level = 2 /\ index > 0 /\ Len(new_boundary) > 1
    /\ OneTile(new_boundary[Len(new_boundary)], tiling.boundary[index + 1])

\* the walk stops on new_boundary[0], new_boundary never holds a vertex
\* twice, and the index stays inside the old boundary while the walk runs
WalkStopsOnFirst ==
    /\ (pc = "return" /\ level >= 1) => new_vertex = new_boundary[1]
    /\ \A i \in 1..Len(new_boundary) : \A j \in 1..Len(new_boundary) :
          i # j => new_boundary[i] # new_boundary[j]
    /\ pc = "walk" => index < Len(tiling.boundary)
    /\ raised \notin {"KeyError", "IndexError"}

\* C9: for every depth >= 1 the walk of each layer terminates (the run
\* reaches its end, unless the first save finds no directory and no walk
\* starts), stops on new_boundary[0], the first vertex of the layer, and the
\* index never runs past the last element of the previous boundary.
C9_WalkTerminates ==
    /\ <>(pc = "done" \/ raised = "FileNotFoundError")
    /\ (pc = "walk" ~> pc = "return")
    /\ []WalkStopsOnFirst

\* the walk of the second layer has stopped on the first vertex of the layer,
\* after as many steps as it appended and advanced, plus the last one
C9_Witness ==
    /\ pc = "return" /\ level = 2
    /\ new_vertex = new_boundary[1]
    /\ index > 0
    /\ counter = (Len(new_boundary) - 1) + index + 1
    /\ counter + 1 = num_tiles

VertexColoursKept ==
    \A v \in VertexIds :
        tiling'.vertices_to_colours[v] = tiling.vertices_to_colours[v]

\* C10: every vertex colour is in {1, 2, 3}, and no step changes the colour
\* of a registered vertex: the write to a vertex that was already registered
\* writes the colour it has.
C10_VertexColoursFixed ==
    /\ [](\A v \in VertexIds : tiling.vertices_to_colours[v] \in 1..3)
    /\ [][VertexColoursKept]_vars

\* a walk step of the second layer got back a registered vertex of the old
\* rim, whose colour was written again
C10_Witness ==
    /\ pc = "walk" /\ level = 2 /\ index > 0
    /\ new_vertex \in Range(tiling.boundary)
    /\ new_vertex < Len(tiling.vertices)
    /\ tiling.vertices_to_colours[new_vertex] \in 1..3

---------------------------------------------------------------------------
(* Properties of the arithmetic *)

TestedSqrtArgs == {1, 2, 3, 4, 6, 8, 12, 18}

SquareFree(r) == \A m \in 2..r : r % (m * m) # 0

\* C5 as stated: for n in {1, 2, 3, 4, 6, 8, 12, 18}, sqrt(n) returns k times
\* the basis element of the square-free remainder r (the plain integer k when
\* r = 1) and sqrt(n) * sqrt(n) equals the plain integer n.
C5_SqrtSquares ==
    (op = "sqrt" /\ result # Pending /\ args[1] \in TestedSqrtArgs) =>
        /\ ~Raised(result)
        /\ \E k \in 1..args[1] : \E r \in 1..args[1] :
              /\ k * k * r = args[1]
              /\ SquareFree(r)
              /\ result.value = IF r = 1 THEN QI_convert(k) ELSE QI(<<1, r>>, <<0, k>>)
        /\ QI_eq(result.square, QI_convert(args[1]))

\* C6 as stated: dividing any rational by a zero divisor fails with a
\* division-by-zero error and returns no value.
C6_DivisionByZeroFails ==
    (op = "truediv" /\ result # Pending /\ IsZero(args[2])) =>
        result = ZeroDivisionError

\* C11 as stated: constructing a QuadraticRational from a QuadraticInteger n
\* and an integer d leaves n with the coefficients it had before, also when
\* the reduction divides a common factor out.
C11_NumeratorUnchanged ==
    (op = "construct" /\ result # Pending /\ args[2][1] = "int") =>
        result.heap[1] = args[1]

===========================================================================
